---- MODULE Spec2Model ----
(***************************************************************************)
(* A model of giacomino-api: the sliding-window rate limiter of            *)
(* src/utils.py, the /chat handler of src/app.py and the retrieval,        *)
(* completion and persistence pipeline of src/giacomino.py.                *)
(*                                                                         *)
(* Request threads (Flask serves each request on its own thread) advance   *)
(* one shared-state access at a time; purely local computation is folded   *)
(* into the step that precedes it.  Time is an integer clock; one hour is  *)
(* HourTicks ticks.  The file .env is taken to exist (requires_env passes).*)
(***************************************************************************)
EXTENDS Integers, Sequences, FiniteSets, TLC

\* ---------------------------------------------------------------- bounds
MaxTime == 3
MaxRequests == 4
HourTicks == 2
RequestCount == 2
MaxDocs == 3
MaxK == 4
MaxCoord == 2
MaxCalls == 2
MaxChars == 12

\* ------------------------------------------------------------- constants
h == 1

Threads == {"t1", "t2"}
Users == {"u1", "u2"}
Endpoints == {"chat"}
Keys == Users \X Endpoints
NoFile == "None"
NoKey == "None"
Secret == "s3cret"

\* A deployment with its .env file and the history key set.
DefaultEnviron == [dotenv |-> TRUE, HISTORY_KEY |-> Secret]

VARIABLES
    clock,              \* time.time(), in ticks
    rate_limit_store,   \* utils.rate_limit_store: key -> list of timestamps
    logger,             \* app.logger: payload, log_count, log_file, sink
    giacomino,          \* app.giacomino is not None
    threaded,           \* the server runs request handlers concurrently
    environ,            \* os.environ and the .env file: dotenv, HISTORY_KEY
    top_k,              \* Giacomino.top_k (RETRIEVE_TOP_K)
    documents,          \* Giacomino.documents: the chunks, in corpus order
    index,              \* Giacomino.index: one vector per chunk, by offset
    saved_messages,     \* the file saved_messages.jsonl, as a token sequence
    writer,             \* history: the call that made each append to the file
    retrieved,          \* the last result of retrieve_context called on its own
    th,                 \* per request thread: position and local variables
    nreq,               \* requests started so far
    admitted,           \* history: per key, the `now` of every admitted check
    rejected            \* history: the keys that have had a check rejected

rlState == <<rate_limit_store, admitted, rejected>>

config == <<giacomino, threaded, environ, top_k, documents, index>>

disk == <<saved_messages, writer>>

vars == <<clock, logger, th, nreq, retrieved, rlState, config, disk>>

\* ------------------------------------------------------------ the logger
format_message(message, level) ==
    [timestamp |-> clock, level |-> level, name |-> "MyLogger", message |-> message]

\* The outcomes of the durable-sink write of one log call: no sink, no failure.
SinkOutcomes == IF logger.log_file = NoFile THEN {TRUE} ELSE {TRUE, FALSE}

\* MyLogger.log: payload += line, log_count += 1, then the sink write, whose
\* failure is printed to the console only.
LogTo(lg, message, level, sinkOk) ==
    LET formatted_msg == format_message(message, level) IN
    [lg EXCEPT !.payload = Append(@, formatted_msg),
               !.log_count = @ + 1,
               !.sink = IF lg.log_file /= NoFile /\ sinkOk
                        THEN Append(@, formatted_msg) ELSE @]

log(message, level, sinkOk) == LogTo(logger, message, level, sinkOk)

\* MyLogger.__init__: empty payload, then the initialization line.
NewLogger(log_file) ==
    LogTo([payload |-> <<>>, log_count |-> 0, log_file |-> log_file, sink |-> <<>>],
          <<"Logger initialized">>, "INFO", TRUE)

RECURSIVE LogAll(_, _, _)
LogAll(lg, messages, level) ==
    IF messages = <<>> THEN lg
    ELSE LogAll(LogTo(lg, Head(messages), level, TRUE), Tail(messages), level)

\* The lines logged while the module is loaded: those of Giacomino.__init__
\* and the one that follows it, or the one of the except branch.
StartupLogger(log_file, available, ndocs) ==
    IF available
    THEN LogAll(NewLogger(log_file),
                << <<"System prompt loaded">>, <<"Loading docs...">>,
                   <<"Embedding docs...">>, <<"Writing index...">>,
                   <<"Loaded documents into FAISS index", ToString(ndocs)>>,
                   <<"Giacomino model initialized">> >>, "INFO")
    ELSE LogTo(NewLogger(log_file), <<"Failed to initialize Giacomino">>,
               "ERROR", TRUE)

\* ------------------------------------------------------ the rate limiter
window == h * HourTicks

\* Mutants of the pruning: the boundary taken as inside the window, and no
\* pruning at all.
PruneInclusive(timestamps, now) ==
    SelectSeq(timestamps, LAMBDA ts : now - ts <= window)

PruneNothing(timestamps, now) == timestamps

\* timestamps = [ts for ts in timestamps if now - ts < window]
Prune(timestamps, now) == SelectSeq(timestamps, LAMBDA ts : now - ts < window)

\* Mutant of the limit test: one request too many is let through.
LimitedOffByOne(timestamps) == Len(timestamps) > RequestCount

\* if len(timestamps) >= request_count: reject
Limited(timestamps) == Len(timestamps) >= RequestCount

\* Mutant of the recording: the request is not recorded.
RecordNothing(timestamps, now) == timestamps

\* timestamps.append(now)
Record(timestamps, now) == Append(timestamps, now)

\* ---------------------------------------------------------- retrieval
Min(a, b) == IF a <= b THEN a ELSE b

\* The corpus of n chunks, named by their offset.
Corpus(n) == [i \in 1..n |-> "d" \o ToString(i)]

\* The vectors the embedding backend may return: one coordinate.
Vectors == 0..MaxCoord

\* The squared L2 distance of the vector at (0-based) offset i to query_vec.
Dist(i, query_vec) == (index[i + 1] - query_vec) * (index[i + 1] - query_vec)

\* The m nearest offsets, nearest first; vectors at equal distance come in
\* either order.
Nearest(query_vec, m) ==
    LET n == Len(index) IN
    {s \in [1..m -> 0..(n - 1)] :
        /\ \A i, j \in 1..m : i < j => s[i] /= s[j]
        /\ \A i, j \in 1..m : i < j => Dist(s[i], query_vec) <= Dist(s[j], query_vec)
        /\ \A i \in 1..m : \A o \in 0..(n - 1) :
              (\A j \in 1..m : s[j] /= o) => Dist(s[i], query_vec) <= Dist(o, query_vec)}

\* index.search(query_vec, k) of an IndexFlatL2, k >= 1: the labels of the k
\* nearest vectors, nearest first, padded with -1 when the index holds fewer.
Search(query_vec, k) ==
    LET n == Len(index)
        m == Min(k, n)
    IN  {s \o [i \in 1..(k - m) |-> -1] : s \in Nearest(query_vec, m)}

\* documents[i] of a Python list: a negative i counts from the end.
DocAt(i) == IF i >= 0 THEN documents[i + 1] ELSE documents[Len(documents) + i + 1]

\* [self.documents[i] for i in indices[0] if i < len(self.documents)]
retrieve_docs(indices) ==
    LET kept == SelectSeq(indices, LAMBDA i : i < Len(documents))
    IN  [j \in 1..Len(kept) |-> DocAt(kept[j])]

NotRetrieved == [query_vec |-> 0, indices |-> <<>>, docs |-> <<>>, called |-> FALSE]

\* retrieve_context(query) with a working embedding backend, called on its own.
RetrieveContext ==
    /\ top_k >= 1
    /\ \E query_vec \in Vectors : \E indices \in Search(query_vec, top_k) :
         retrieved' = [query_vec |-> query_vec, indices |-> indices,
                       docs |-> retrieve_docs(indices), called |-> TRUE]
    /\ UNCHANGED <<clock, logger, th, nreq, rlState, config, disk>>

IdleThread ==
    [pc |-> "idle", user |-> "none", endpoint |-> "none", now |-> 0,
     raw |-> <<>>, timestamps |-> <<>>, status |-> 0, body |-> <<>>,
     caller |-> "none", rid |-> 0, input |-> <<>>, messages |-> <<>>,
     context_docs |-> <<>>, context |-> <<>>, system_prompt |-> <<>>,
     sent |-> <<>>, calls |-> 0, response |-> "", exc |-> "none",
     op |-> "none", formatted_msg |-> <<>>, payload_read |-> <<>>,
     count_read |-> 0, sink_failed |-> FALSE, ret |-> [kind |-> "none"],
     authorization |-> NoKey, key |-> NoKey, auth_key |-> NoKey]

\* Mutant of the key: the client is left out of it.
KeyOfEndpoint(t) == <<"u1", th[t].endpoint>>

\* key = (user, endpoint)
KeyOf(t) == <<th[t].user, th[t].endpoint>>

Tick ==
    /\ clock < MaxTime
    /\ clock' = clock + 1
    /\ UNCHANGED <<logger, th, nreq, retrieved, rlState, config, disk>>

\* A POST /chat arrives on thread t; requires_env (lines 106-109), then
\* wrapper lines 120-124.
Request(t) ==
    /\ th[t].pc = "idle"
    /\ threaded \/ \A u \in Threads : th[u].pc = "idle"
    /\ nreq < MaxRequests
    /\ \E u \in Users :
         th' = [th EXCEPT ![t] =
                  IF ~environ.dotenv
                  THEN [IdleThread EXCEPT !.pc = "done", !.user = u,
                           !.endpoint = "chat", !.status = 400,
                           !.body = <<"error", "Environment configuration missing.">>]
                  ELSE [IdleThread EXCEPT !.pc = "rl_read",
                           !.user = u, !.endpoint = "chat", !.now = clock]]
    /\ nreq' = nreq + 1
    /\ UNCHANGED <<clock, logger, retrieved, rlState, config, disk>>

\* wrapper lines 127-132: read the store, prune the local list, reject with 429.
RL_Read(t) ==
    /\ th[t].pc = "rl_read"
    /\ LET raw == rate_limit_store[KeyOf(t)]
           timestamps == Prune(raw, th[t].now)
       IN  /\ th' = [th EXCEPT ![t] =
                    IF Limited(timestamps)
                    THEN [@ EXCEPT !.pc = "done", !.raw = raw, !.timestamps = timestamps,
                                   !.status = 429,
                                   !.body = <<"error", "Rate limit exceeded">>]
                    ELSE [@ EXCEPT !.pc = "rl_log", !.raw = raw,
                                   !.timestamps = timestamps]]
           /\ rejected' = IF Limited(timestamps) THEN rejected \cup {KeyOf(t)}
                                                 ELSE rejected
    /\ UNCHANGED <<clock, logger, nreq, retrieved, rate_limit_store, admitted, config, disk>>

\* wrapper lines 134-136: logger.info(log_msg).
RL_Log(t) ==
    /\ th[t].pc = "rl_log"
    /\ \E sinkOk \in SinkOutcomes :
         logger' = log(<<"RateLimit Allowed", th[t].user, th[t].endpoint,
                         Len(th[t].timestamps), RequestCount, h>>, "INFO", sinkOk)
    /\ th' = [th EXCEPT ![t].pc = "rl_store"]
    /\ UNCHANGED <<clock, nreq, retrieved, rlState, config, disk>>

\* wrapper lines 139-142: record the request, store the list, call the handler.
RL_Store(t) ==
    /\ th[t].pc = "rl_store"
    /\ LET timestamps == Record(th[t].timestamps, th[t].now)
       IN  /\ rate_limit_store' = [rate_limit_store EXCEPT ![KeyOf(t)] = timestamps]
           /\ th' = [th EXCEPT ![t] = [@ EXCEPT !.pc = "chat", !.caller = "chat",
                                                !.timestamps = timestamps]]
    /\ admitted' = [admitted EXCEPT ![KeyOf(t)] = Append(@, th[t].now)]
    /\ UNCHANGED <<clock, logger, nreq, retrieved, rejected, config, disk>>

\* chat lines 95-96: the model is not available.
Chat_Unavailable(t) ==
    /\ th[t].pc = "chat"
    /\ ~giacomino
    /\ th' = [th EXCEPT ![t] = [@ EXCEPT !.pc = "done", !.status = 503,
                                         !.body = <<"error", "Model not available">>]]
    /\ UNCHANGED <<clock, logger, nreq, retrieved, rlState, config, disk>>

\* The response is sent; the thread is free for the next request.
Return(t) ==
    /\ th[t].pc = "done"
    /\ th' = [th EXCEPT ![t] = IdleThread]
    /\ UNCHANGED <<clock, logger, nreq, retrieved, rlState, config, disk>>

\* ------------------------------------------------ the /chat handler
ValidRoles == {"system", "assistant", "user"}

Msg(role, content) == [role |-> role, content |-> content]

\* The message histories a caller may send.
Histories ==
    { <<Msg("user", "hi")>>,
      <<Msg("system", "be brief"), Msg("user", "hi")>>,
      <<Msg("user", "hi"), Msg("assistant", "hello")>>,
      <<Msg("tool", "42"), Msg("user", "hi")>>,
      <<>>,
      <<Msg("user", "tell me more"), Msg("assistant", "hello"), Msg("user", "hi")>> }

\* request.get_json(): a body without "messages", or one with a history.
Bodies ==
    {[has_messages |-> FALSE, messages |-> <<>>]}
        \cup {[has_messages |-> TRUE, messages |-> m] : m \in Histories}

\* sum(len(msg["content"]) for msg in messages)
RECURSIVE TotalChars(_)
TotalChars(messages) ==
    IF messages = <<>> THEN 0
    ELSE Len(Head(messages).content) + TotalChars(Tail(messages))

Fallback == "No specific context available."

\* "\n".join(context_docs)
RECURSIVE Join(_)
Join(docs) ==
    IF docs = <<>> THEN <<>>
    ELSE IF Len(docs) = 1 THEN <<docs[1]>>
    ELSE <<docs[1], "\n">> \o Join(Tail(docs))

\* generate_response line 106
context_of(context_docs) ==
    IF context_docs /= <<>> THEN Join(context_docs) ELSE <<Fallback>>

\* self.system_prompt.format(context=context, date=...)
format_prompt(context) ==
    [template |-> "system.txt", context |-> context, date |-> clock]

\* The text the completion backend returns to call rid, and its strip().
Completion(rid) == [lead |-> " ", text |-> "reply" \o ToString(rid), trail |-> "\n"]

strip(content) == content.text

\* Mutant of the role check: every role is let through.
AnyRoles(messages) == TRUE

\* for mex in messages: assert mex["role"] in {"system", "assistant", "user"}
RolesOk(messages) == \A i \in 1..Len(messages) : messages[i].role \in ValidRoles

\* Mutant of the record: the timestamp entry is appended instead of prepended.
RecordTimestampLast(messages, timestamp, response) ==
    messages \o <<Msg("assistant", response), [timestamp |-> timestamp]>>

\* messages.insert(0, {"timestamp": timestamp});
\* messages.append({"role": "assistant", "content": response})
ConversationRecord(messages, timestamp, response) ==
    <<[timestamp |-> timestamp]>> \o messages \o <<Msg("assistant", response)>>

Newline == [sym |-> "\n"]

\* json.dumps(messages): the entries between brackets.
dumps(messages) == <<[sym |-> "["]>> \o messages \o <<[sym |-> "]"]>>

\* Mutant of the append: the file is opened for writing, not for appending.
WriteFile(file, data) == data

\* open(filepath, "a") ... f.write(data): one buffered write, flushed on close.
AppendFile(file, data) == file \o data

\* Mutant of the propagation: the exception is swallowed and the call goes on
\* to the saving of the record.
Swallowed(rec, kind) == [rec EXCEPT !.pc = "gr_save", !.exc = kind]

\* An exception raised in generate_response: caught by chat, or propagated to
\* a caller that called the method itself.
Raised(rec, kind) ==
    IF rec.caller = "chat" THEN [rec EXCEPT !.pc = "except", !.exc = kind]
                           ELSE [rec EXCEPT !.pc = "done", !.exc = kind]

\* The wrapper calls the handler of an admitted request (utils.py line 142).
Handle(t) ==
    /\ th[t].pc = "idle"
    /\ threaded \/ \A u \in Threads : th[u].pc = "idle"
    /\ nreq < MaxCalls
    /\ th' = [th EXCEPT ![t] = [IdleThread EXCEPT !.pc = "chat", !.caller = "chat",
                                                  !.rid = nreq + 1]]
    /\ nreq' = nreq + 1
    /\ UNCHANGED <<clock, logger, retrieved, rlState, config, disk>>

\* generate_response is called by a caller other than the /chat handler.
Direct(t) ==
    /\ th[t].pc = "idle"
    /\ giacomino
    /\ threaded \/ \A u \in Threads : th[u].pc = "idle"
    /\ nreq < MaxCalls
    /\ \E m \in Histories :
         th' = [th EXCEPT ![t] = [IdleThread EXCEPT !.pc = "gr_validate",
                                     !.caller = "direct", !.rid = nreq + 1,
                                     !.input = m, !.messages = m]]
    /\ nreq' = nreq + 1
    /\ UNCHANGED <<clock, logger, retrieved, rlState, config, disk>>

\* chat lines 95-114: the checks of the request body, then generate_response.
Chat_Begin(t) ==
    /\ th[t].pc = "chat"
    /\ giacomino
    /\ \E data \in Bodies :
         th' = [th EXCEPT ![t] =
                  IF ~data.has_messages
                  THEN [@ EXCEPT !.pc = "done", !.status = 400,
                                 !.body = <<"error", "Missing message in request body">>]
                  ELSE IF data.messages = <<>>
                  THEN [@ EXCEPT !.pc = "done", !.status = 400,
                                 !.body = <<"error", "Empty message">>]
                  ELSE IF TotalChars(data.messages) > MaxChars
                  THEN [@ EXCEPT !.pc = "done", !.status = 400,
                                 !.input = data.messages, !.messages = data.messages,
                                 !.body = <<"error", "Conversation exceeded the character limit">>]
                  ELSE [@ EXCEPT !.pc = "gr_validate", !.input = data.messages,
                                 !.messages = data.messages]]
    /\ UNCHANGED <<clock, logger, nreq, retrieved, rlState, config, disk>>

\* generate_response lines 98-102: the two assertions on the history.
GR_Validate(t) ==
    /\ th[t].pc = "gr_validate"
    /\ LET messages == th[t].messages IN
       th' = [th EXCEPT ![t] =
                IF messages = <<>> \/ messages[Len(messages)].role /= "user"
                THEN Raised(@, "AssertionError")
                ELSE [@ EXCEPT !.pc = "gr_retrieve"]]
    /\ UNCHANGED <<clock, logger, nreq, retrieved, rlState, config, disk>>

\* generate_response lines 105-112: retrieve_context, the context, the prompt.
\* The embedding call may fail; a search for k = 0 neighbours raises or
\* returns nothing, by the version of the library.
GR_Retrieve(t) ==
    /\ th[t].pc = "gr_retrieve"
    /\ \/ th' = [th EXCEPT ![t] = Raised(@, "EmbeddingError")]
       \/ /\ top_k = 0
          /\ th' = [th EXCEPT ![t] = Raised(@, "SearchError")]
       \/ \E query_vec \in Vectors :
            \E indices \in (IF top_k = 0 THEN {<<>>} ELSE Search(query_vec, top_k)) :
               LET context_docs == retrieve_docs(indices)
                   context == context_of(context_docs)
               IN  th' = [th EXCEPT ![t] =
                            [@ EXCEPT !.pc = "gr_complete",
                                      !.context_docs = context_docs,
                                      !.context = context,
                                      !.system_prompt = format_prompt(context)]]
    /\ UNCHANGED <<clock, logger, nreq, retrieved, rlState, config, disk>>

\* _send_chat_completion_request, lines 79-95: the role assertion, the system
\* prompt put first, the completion call, which fails or returns a text.
GR_Complete(t) ==
    /\ th[t].pc = "gr_complete"
    /\ IF ~RolesOk(th[t].messages)
       THEN th' = [th EXCEPT ![t] = Raised(@, "AssertionError")]
       ELSE LET sent == <<Msg("system", th[t].system_prompt)>> \o th[t].messages IN
            \/ th' = [th EXCEPT ![t] =
                        Raised([@ EXCEPT !.sent = sent, !.calls = @ + 1],
                               "CompletionError")]
            \/ th' = [th EXCEPT ![t] =
                        [@ EXCEPT !.pc = "gr_save", !.sent = sent, !.calls = @ + 1,
                                  !.response = strip(Completion(th[t].rid))]]
    /\ UNCHANGED <<clock, logger, nreq, retrieved, rlState, config, disk>>

\* generate_response lines 118-121 and line 128: the record is built in the
\* caller's list, then the file is opened, which may fail.
GR_Save_Open(t) ==
    /\ th[t].pc = "gr_save"
    /\ LET messages == ConversationRecord(th[t].messages, clock, th[t].response) IN
       \/ th' = [th EXCEPT ![t] = Raised([@ EXCEPT !.messages = messages], "OSError")]
       \/ th' = [th EXCEPT ![t] = [@ EXCEPT !.pc = "gr_write", !.messages = messages]]
    /\ UNCHANGED <<clock, logger, nreq, retrieved, rlState, config, disk>>

\* line 129 and the close of the file: the line reaches the file in one
\* append; generate_response returns (line 124) and chat answers (line 116).
GR_Save_Write(t) ==
    /\ th[t].pc = "gr_write"
    /\ saved_messages' = AppendFile(saved_messages, dumps(th[t].messages) \o <<Newline>>)
    /\ writer' = Append(writer, th[t].rid)
    /\ th' = [th EXCEPT ![t] =
                IF @.caller = "chat"
                THEN [@ EXCEPT !.pc = "done", !.status = 200,
                               !.body = <<"text", th[t].response>>]
                ELSE [@ EXCEPT !.pc = "done"]]
    /\ UNCHANGED <<clock, logger, nreq, retrieved, rlState, config>>

\* chat lines 118-120: any exception is logged and answered with 500.
Chat_Except(t) ==
    /\ th[t].pc = "except"
    /\ \E sinkOk \in SinkOutcomes :
         logger' = log(<<"Error in chat endpoint", th[t].exc>>, "ERROR", sinkOk)
    /\ th' = [th EXCEPT ![t] = [@ EXCEPT !.pc = "done", !.status = 500,
                                         !.body = <<"error", "Internal server error">>]]
    /\ UNCHANGED <<clock, nreq, retrieved, rlState, config, disk>>

\* The state after start-up: app.py lines 12-40 with LOG_FILE unset and the
\* construction of Giacomino failed (giacomino = None), utils.py line 114.
InitWith(thr) ==
    /\ clock = 0
    /\ rate_limit_store = [k \in Keys |-> <<>>]
    /\ logger = StartupLogger(NoFile, FALSE, 0)
    /\ giacomino = FALSE
    /\ threaded = thr
    /\ environ = DefaultEnviron
    /\ top_k = 0
    /\ documents = <<>>
    /\ index = <<>>
    /\ saved_messages = <<>>
    /\ writer = <<>>
    /\ retrieved = NotRetrieved
    /\ th = [t \in Threads |-> IdleThread]
    /\ nreq = 0
    /\ admitted = [k \in Keys |-> <<>>]
    /\ rejected = {}

Init == InitWith(TRUE)

Next ==
    \/ Tick
    \/ \E t \in Threads : Request(t)
    \/ \E t \in Threads : RL_Read(t)
    \/ \E t \in Threads : RL_Log(t)
    \/ \E t \in Threads : RL_Store(t)
    \/ \E t \in Threads : Chat_Unavailable(t)
    \/ \E t \in Threads : Return(t)

\* Request threads interleave freely (app.run serves threaded by default).
Spec == Init /\ [][Next]_vars

\* The values of RETRIEVE_TOP_K tried against the corpus of two chunks: no
\* neighbour, fewer than the corpus holds, more than it holds.
TopKs == {0, 1, 3}

\* The state after a start-up that built the index over a corpus of two
\* chunks.  Time stands still: every timestamp taken is the same.
ChatInit ==
    /\ clock = 0
    /\ rate_limit_store = [k \in Keys |-> <<>>]
    /\ logger = StartupLogger(NoFile, TRUE, 2)
    /\ giacomino = TRUE
    /\ threaded = TRUE
    /\ environ = DefaultEnviron
    /\ top_k \in TopKs
    /\ documents = Corpus(2)
    /\ index = <<0, 1>>
    /\ saved_messages = <<>>
    /\ writer = <<>>
    /\ retrieved = NotRetrieved
    /\ th = [t \in Threads |-> IdleThread]
    /\ nreq = 0
    /\ admitted = [k \in Keys |-> <<>>]
    /\ rejected = {}

ChatNext ==
    \/ \E t \in Threads : Handle(t)
    \/ \E t \in Threads : Direct(t)
    \/ \E t \in Threads : Chat_Begin(t)
    \/ \E t \in Threads : GR_Validate(t)
    \/ \E t \in Threads : GR_Retrieve(t)
    \/ \E t \in Threads : GR_Complete(t)
    \/ \E t \in Threads : GR_Save_Open(t)
    \/ \E t \in Threads : GR_Save_Write(t)
    \/ \E t \in Threads : Chat_Except(t)
    \/ \E t \in Threads : Return(t)

\* Admitted /chat requests and direct calls of generate_response, interleaved.
ChatSpec == ChatInit /\ [][ChatNext]_vars

\* Any corpus of 1..MaxDocs chunks with any vectors, any top_k >= 1.
QueryInit ==
    /\ clock = 0
    /\ rate_limit_store = [k \in Keys |-> <<>>]
    /\ giacomino = TRUE
    /\ threaded = FALSE
    /\ environ = DefaultEnviron
    /\ top_k \in 1..MaxK
    /\ \E n \in 1..MaxDocs : /\ documents = Corpus(n)
                             /\ index \in [1..n -> Vectors]
                             /\ logger = StartupLogger(NoFile, TRUE, n)
    /\ saved_messages = <<>>
    /\ writer = <<>>
    /\ retrieved = NotRetrieved
    /\ th = [t \in Threads |-> IdleThread]
    /\ nreq = 0
    /\ admitted = [k \in Keys |-> <<>>]
    /\ rejected = {}

QueryNext == RetrieveContext

\* The retrieval function applied to every bounded corpus and query.
QuerySpec == QueryInit /\ [][QueryNext]_vars

\* The state after start-up of a deployment whose model was built, or was
\* not, with or without its .env file; one neighbour is retrieved.
PipelineInit ==
    /\ clock = 0
    /\ rate_limit_store = [k \in Keys |-> <<>>]
    /\ giacomino \in BOOLEAN
    /\ threaded = FALSE
    /\ environ \in [dotenv : BOOLEAN, HISTORY_KEY : {Secret}]
    /\ logger = StartupLogger(NoFile, giacomino, 2)
    /\ top_k = 1
    /\ documents = Corpus(2)
    /\ index = <<0, 1>>
    /\ saved_messages = <<>>
    /\ writer = <<>>
    /\ retrieved = NotRetrieved
    /\ th = [t \in Threads |-> IdleThread]
    /\ nreq = 0
    /\ admitted = [k \in Keys |-> <<>>]
    /\ rejected = {}

PipelineNext ==
    \/ \E t \in Threads : Request(t)
    \/ \E t \in Threads : RL_Read(t)
    \/ \E t \in Threads : RL_Log(t)
    \/ \E t \in Threads : RL_Store(t)
    \/ \E t \in Threads : Chat_Unavailable(t)
    \/ \E t \in Threads : Chat_Begin(t)
    \/ \E t \in Threads : GR_Validate(t)
    \/ \E t \in Threads : GR_Retrieve(t)
    \/ \E t \in Threads : GR_Complete(t)
    \/ \E t \in Threads : GR_Save_Open(t)
    \/ \E t \in Threads : GR_Save_Write(t)
    \/ \E t \in Threads : Chat_Except(t)
    \/ \E t \in Threads : Return(t)

\* POST /chat from the admission check to the answer, one request at a time;
\* time stands still, so every request falls into one window.
PipelineSpec == PipelineInit /\ [][PipelineNext]_vars

\* One request at a time (a server without threads): the sequential limiter.
SeqInit == InitWith(FALSE)

SeqSpec == SeqInit /\ [][Next]_vars

\* ------------------------------------------------------------------------
\* The logger's public operations, step by step
\* ------------------------------------------------------------------------
MaxLogs == 2

LogFile == "app.log"

\* The public operations that log one event, and the level each logs at.
LogOps == {"log", "info", "warning", "error", "debug", "log_dict",
           "log_execution_time"}

LevelOf(op) ==
    CASE op = "warning" -> "WARNING"
      [] op = "error" -> "ERROR"
      [] op = "debug" -> "DEBUG"
      [] OTHER -> "INFO"

\* The text of the event of call rid.
MessageOf(op, rid) == <<op, ToString(rid)>>

\* log lines 32-36: the message is formatted and printed.
Log_Call(t) ==
    /\ th[t].pc = "idle"
    /\ threaded \/ \A u \in Threads : th[u].pc = "idle"
    /\ nreq < MaxLogs
    /\ \E op \in LogOps :
         th' = [th EXCEPT ![t] =
                  [IdleThread EXCEPT !.pc = "log_payload", !.op = op,
                      !.rid = nreq + 1,
                      !.formatted_msg =
                          format_message(MessageOf(op, nreq + 1), LevelOf(op))]]
    /\ nreq' = nreq + 1
    /\ UNCHANGED <<clock, logger, retrieved, rlState, config, disk>>

\* line 39, self.payload += ...: the attribute is loaded,
Log_PayloadLoad(t) ==
    /\ th[t].pc = "log_payload"
    /\ th' = [th EXCEPT ![t] = [@ EXCEPT !.pc = "log_payload_store",
                                         !.payload_read = logger.payload]]
    /\ UNCHANGED <<clock, logger, nreq, retrieved, rlState, config, disk>>

\* and the sum of what was loaded and the new line is stored.
Log_PayloadStore(t) ==
    /\ th[t].pc = "log_payload_store"
    /\ logger' = [logger EXCEPT
                    !.payload = Append(th[t].payload_read, th[t].formatted_msg)]
    /\ th' = [th EXCEPT ![t] = [@ EXCEPT !.pc = "log_count"]]
    /\ UNCHANGED <<clock, nreq, retrieved, rlState, config, disk>>

\* line 40, self.log_count += 1: the attribute is loaded,
Log_CountLoad(t) ==
    /\ th[t].pc = "log_count"
    /\ th' = [th EXCEPT ![t] = [@ EXCEPT !.pc = "log_count_store",
                                         !.count_read = logger.log_count]]
    /\ UNCHANGED <<clock, logger, nreq, retrieved, rlState, config, disk>>

\* and what was loaded plus one is stored.
Log_CountStore(t) ==
    /\ th[t].pc = "log_count_store"
    /\ logger' = [logger EXCEPT !.log_count = th[t].count_read + 1]
    /\ th' = [th EXCEPT ![t] = [@ EXCEPT !.pc = "log_file"]]
    /\ UNCHANGED <<clock, nreq, retrieved, rlState, config, disk>>

\* lines 43-44 and _write_to_file: with a log file, the line is appended to
\* it, or the write fails and the failure is printed; log returns.
Log_WriteToFile(t) ==
    /\ th[t].pc = "log_file"
    /\ IF logger.log_file = NoFile
       THEN /\ th' = [th EXCEPT ![t] = [@ EXCEPT !.pc = "done"]]
            /\ UNCHANGED logger
       ELSE \/ /\ logger' = [logger EXCEPT
                               !.sink = Append(@, th[t].formatted_msg)]
               /\ th' = [th EXCEPT ![t] = [@ EXCEPT !.pc = "done"]]
            \/ /\ th' = [th EXCEPT ![t] = [@ EXCEPT !.pc = "done",
                                                    !.sink_failed = TRUE]]
               /\ UNCHANGED logger
    /\ UNCHANGED <<clock, nreq, retrieved, rlState, config, disk>>

\* clear, lines 93-95: the payload and the count are reset, then the
\* clearing is logged.
Logger_Clear(t) ==
    /\ th[t].pc = "idle"
    /\ threaded \/ \A u \in Threads : th[u].pc = "idle"
    /\ nreq < MaxLogs
    /\ logger' = [logger EXCEPT !.payload = <<>>, !.log_count = 0]
    /\ th' = [th EXCEPT ![t] =
                [IdleThread EXCEPT !.pc = "log_payload", !.op = "clear",
                    !.rid = nreq + 1,
                    !.formatted_msg = format_message(<<"Logger cleared">>, "INFO")]]
    /\ nreq' = nreq + 1
    /\ UNCHANGED <<clock, retrieved, rlState, config, disk>>

\* get_stats, lines 77-85.
Logger_GetStats(t) ==
    /\ th[t].pc = "idle"
    /\ threaded \/ \A u \in Threads : th[u].pc = "idle"
    /\ nreq < MaxLogs
    /\ th' = [th EXCEPT ![t] =
                [IdleThread EXCEPT !.pc = "done", !.op = "get_stats",
                    !.rid = nreq + 1,
                    !.ret = [kind |-> "stats", uptime_seconds |-> clock,
                             total_logs |-> logger.log_count,
                             log_file |-> logger.log_file]]]
    /\ nreq' = nreq + 1
    /\ UNCHANGED <<clock, logger, retrieved, rlState, config, disk>>

\* dumps, line 89.
Logger_Dumps(t) ==
    /\ th[t].pc = "idle"
    /\ threaded \/ \A u \in Threads : th[u].pc = "idle"
    /\ nreq < MaxLogs
    /\ th' = [th EXCEPT ![t] =
                [IdleThread EXCEPT !.pc = "done", !.op = "dumps",
                    !.rid = nreq + 1,
                    !.ret = [kind |-> "dumps", text |-> logger.payload]]]
    /\ nreq' = nreq + 1
    /\ UNCHANGED <<clock, logger, retrieved, rlState, config, disk>>

\* A logger just constructed, with or without a log file.
LoggerInit(thr) ==
    /\ clock = 0
    /\ rate_limit_store = [k \in Keys |-> <<>>]
    /\ logger \in {NewLogger(f) : f \in {NoFile, LogFile}}
    /\ giacomino = FALSE
    /\ threaded = thr
    /\ environ = DefaultEnviron
    /\ top_k = 0
    /\ documents = <<>>
    /\ index = <<>>
    /\ saved_messages = <<>>
    /\ writer = <<>>
    /\ retrieved = NotRetrieved
    /\ th = [t \in Threads |-> IdleThread]
    /\ nreq = 0
    /\ admitted = [k \in Keys |-> <<>>]
    /\ rejected = {}

LoggerSeqInit == LoggerInit(FALSE)

LoggerNext ==
    \/ Tick
    \/ \E t \in Threads : Log_Call(t)
    \/ \E t \in Threads : Log_PayloadLoad(t)
    \/ \E t \in Threads : Log_PayloadStore(t)
    \/ \E t \in Threads : Log_CountLoad(t)
    \/ \E t \in Threads : Log_CountStore(t)
    \/ \E t \in Threads : Log_WriteToFile(t)
    \/ \E t \in Threads : Logger_Clear(t)
    \/ \E t \in Threads : Logger_GetStats(t)
    \/ \E t \in Threads : Logger_Dumps(t)
    \/ \E t \in Threads : Return(t)

\* Any sequence of the public operations of one logger, one at a time.
LoggerSpec == LoggerSeqInit /\ [][LoggerNext]_vars

LoggerThreadedInit == LoggerInit(TRUE)

ConcurrentLogNext ==
    \/ Tick
    \/ \E t \in Threads : Log_Call(t)
    \/ \E t \in Threads : Log_PayloadLoad(t)
    \/ \E t \in Threads : Log_PayloadStore(t)
    \/ \E t \in Threads : Log_CountLoad(t)
    \/ \E t \in Threads : Log_CountStore(t)
    \/ \E t \in Threads : Log_WriteToFile(t)
    \/ \E t \in Threads : Return(t)

\* Request threads logging at the same time.
ConcurrentLogSpec == LoggerThreadedInit /\ [][ConcurrentLogNext]_vars

\* ------------------------------------------------------------------------
\* The /history and /status endpoints
\* ------------------------------------------------------------------------
MaxGets == 2

\* What a request can carry as Authorization header or as key parameter:
\* nothing, the empty string, the secret, strings that are not the secret.
KeyValues == {NoKey, "", Secret, "wrong"}

\* Python truth of an optional string.
Truthy(s) == s \notin {NoKey, ""}

\* request.headers.get("Authorization") or request.args.get("key")
OrElse(a, b) == IF Truthy(a) THEN a ELSE b

\* Mutant of the test of the key: any key that is present is let through.
AnyKeyPresent(auth_key, expected_key) == ~Truthy(auth_key)

\* line 140: not auth_key or auth_key != expected_key
Unauthorized(auth_key, expected_key) ==
    ~Truthy(auth_key) \/ auth_key /= expected_key

\* A GET /history arrives; requires_env (utils.py lines 106-109), then lines
\* 132-133: the key is taken from the header or the parameter and logged.
History_Auth(t) ==
    /\ th[t].pc = "idle"
    /\ threaded \/ \A u \in Threads : th[u].pc = "idle"
    /\ nreq < MaxGets
    /\ nreq' = nreq + 1
    /\ \E a \in KeyValues, k \in KeyValues :
         LET rec == [IdleThread EXCEPT !.op = "history", !.rid = nreq + 1,
                                       !.authorization = a, !.key = k]
         IN  IF ~environ.dotenv
             THEN /\ th' = [th EXCEPT ![t] =
                       [rec EXCEPT !.pc = "done", !.status = 400,
                           !.body = <<"error", "Environment configuration missing.">>]]
                  /\ UNCHANGED logger
             ELSE /\ th' = [th EXCEPT ![t] =
                       [rec EXCEPT !.pc = "hist_check", !.auth_key = OrElse(a, k)]]
                  /\ \E sinkOk \in SinkOutcomes :
                       logger' = log(<<"Auth access attempt with key", OrElse(a, k)>>,
                                     "INFO", sinkOk)
    /\ UNCHANGED <<clock, retrieved, rlState, config, disk>>

\* lines 134-141: the configured key is read; without one the request fails,
\* with a key that is absent or different it is refused.
History_Check(t) ==
    /\ th[t].pc = "hist_check"
    /\ LET expected_key == environ.HISTORY_KEY IN
       IF ~Truthy(expected_key)
       THEN /\ \E sinkOk \in SinkOutcomes :
                 logger' = log(<<"HISTORY_KEY not configured in environment">>,
                               "ERROR", sinkOk)
            /\ th' = [th EXCEPT ![t] = [@ EXCEPT !.pc = "done", !.status = 500,
                                 !.body = <<"error", "Service not configured">>]]
       ELSE /\ UNCHANGED logger
            /\ th' = [th EXCEPT ![t] =
                        IF Unauthorized(th[t].auth_key, expected_key)
                        THEN [@ EXCEPT !.pc = "done", !.status = 401,
                                       !.body = <<"error", "Unauthorized">>]
                        ELSE [@ EXCEPT !.pc = "hist_read"]]
    /\ UNCHANGED <<clock, nreq, retrieved, rlState, config, disk>>

\* lines 144-154: without the file an empty history is answered; the file is
\* read and answered, or reading it raises and the request fails.
History_Read(t) ==
    /\ th[t].pc = "hist_read"
    /\ IF saved_messages = <<>>
       THEN /\ th' = [th EXCEPT ![t] = [@ EXCEPT !.pc = "done", !.status = 200,
                                 !.body = <<"history", <<>>, "No history file found">>]]
            /\ UNCHANGED logger
       ELSE \/ /\ th' = [th EXCEPT ![t] = [@ EXCEPT !.pc = "done", !.status = 200,
                                    !.body = <<"history", saved_messages>>]]
               /\ UNCHANGED logger
            \/ /\ \E sinkOk \in SinkOutcomes :
                    logger' = log(<<"Error retrieving history", "OSError">>,
                                  "ERROR", sinkOk)
               /\ th' = [th EXCEPT ![t] = [@ EXCEPT !.pc = "done", !.status = 500,
                                    !.body = <<"error", "Failed to retrieve history">>]]
    /\ UNCHANGED <<clock, nreq, retrieved, rlState, config, disk>>

\* GET /status, lines 55-74, behind requires_env: the state of the model, the
\* statistics of the logger and the whole of its accumulated text.
Status_Check(t) ==
    /\ th[t].pc = "idle"
    /\ threaded \/ \A u \in Threads : th[u].pc = "idle"
    /\ nreq < MaxGets
    /\ nreq' = nreq + 1
    /\ LET rec == [IdleThread EXCEPT !.op = "status", !.rid = nreq + 1, !.pc = "done"]
       IN  th' = [th EXCEPT ![t] =
                    IF ~environ.dotenv
                    THEN [rec EXCEPT !.status = 400,
                              !.body = <<"error", "Environment configuration missing.">>]
                    ELSE [rec EXCEPT !.status = 200,
                              !.ret = [kind |-> "status",
                                       status |-> IF giacomino THEN "healthy"
                                                               ELSE "unhealthy",
                                       timestamp |-> clock,
                                       total_logs |-> logger.log_count,
                                       log_file |-> logger.log_file,
                                       logs_dump |-> logger.payload]]]
    /\ UNCHANGED <<clock, logger, retrieved, rlState, config, disk>>

\* One record of an earlier conversation, as generate_response leaves it.
EarlierHistory ==
    dumps(ConversationRecord(<<Msg("user", "hi")>>, 0, strip(Completion(0))))
        \o <<Newline>>

\* The state after start-up (app.py lines 12-40) of any deployment: with or
\* without the .env file, the history key and a history file.
HistoryInit ==
    /\ clock = 0
    /\ rate_limit_store = [k \in Keys |-> <<>>]
    /\ environ \in [dotenv : BOOLEAN, HISTORY_KEY : {NoKey, "", Secret}]
    /\ logger = IF environ.dotenv
                THEN StartupLogger(NoFile, FALSE, 0)
                ELSE LogTo(LogTo(NewLogger(NoFile), <<"Missing .env">>, "ERROR", TRUE),
                           <<"Failed to initialize Giacomino">>, "ERROR", TRUE)
    /\ giacomino = FALSE
    /\ threaded = TRUE
    /\ top_k = 0
    /\ documents = <<>>
    /\ index = <<>>
    /\ saved_messages \in {<<>>, EarlierHistory}
    /\ writer = <<>>
    /\ retrieved = NotRetrieved
    /\ th = [t \in Threads |-> IdleThread]
    /\ nreq = 0
    /\ admitted = [k \in Keys |-> <<>>]
    /\ rejected = {}

HistoryNext ==
    \/ \E t \in Threads : History_Auth(t)
    \/ \E t \in Threads : History_Check(t)
    \/ \E t \in Threads : History_Read(t)
    \/ \E t \in Threads : Status_Check(t)
    \/ \E t \in Threads : Return(t)

\* GET /history and GET /status requests, interleaved; time stands still.
HistorySpec == HistoryInit /\ [][HistoryNext]_vars

\* ------------------------------------------------------------------------
\* Claims about the rate limiter
\* ------------------------------------------------------------------------

\* The number of timestamps of tss that lie inside the window ending at now.
InWindow(tss, now) == Cardinality({i \in 1..Len(tss) : now - tss[i] < window})

\* Thread t has finished its admission check (and not yet sent its response).
Checked(t) == th[t].pc \in {"chat", "done"}

IsRejected(t) == th[t].pc = "done" /\ th[t].status = 429

IsAdmitted(t) == Checked(t) /\ th[t].status /= 429

\* C1: with one check at a time, a check is rejected exactly when the stored
\* timestamps inside the window already number max_requests; a rejected check
\* leaves the stored list as it was, an admitted one leaves the in-window
\* timestamps followed by exactly one new timestamp, its own `now`; and no
\* key ever holds more than max_requests in-window timestamps.
C1_SequentialLimiter ==
    /\ \A t \in Threads : Checked(t) =>
         LET stored == rate_limit_store[KeyOf(t)]
             n == InWindow(th[t].raw, th[t].now)
         IN  /\ IsRejected(t) <=> n >= RequestCount
             /\ IsRejected(t) => stored = th[t].raw
             /\ IsAdmitted(t) => /\ Len(stored) = n + 1
                                  /\ stored[Len(stored)] = th[t].now
                                  /\ InWindow(SubSeq(stored, 1, n), th[t].now) = n
    /\ \A k \in Keys : /\ InWindow(rate_limit_store[k], clock) <= RequestCount
                       /\ Len(rate_limit_store[k]) <= RequestCount

\* max_requests checks of one key inside one window were admitted, the next
\* one is rejected, and the key holds exactly max_requests timestamps.
C1_Witness ==
    \E t \in Threads :
        /\ IsRejected(t)
        /\ nreq = RequestCount + 1
        /\ Len(admitted[KeyOf(t)]) = RequestCount
        /\ InWindow(admitted[KeyOf(t)], th[t].now) = RequestCount
        /\ Len(rate_limit_store[KeyOf(t)]) = RequestCount

\* The number of checks of key k admitted with lo <= now < lo + window.
AdmittedIn(k, lo) ==
    Cardinality({i \in 1..Len(admitted[k]) :
                    lo <= admitted[k][i] /\ admitted[k][i] < lo + window})

Quiescent == \A t \in Threads : th[t].pc = "idle"

\* C2: under every interleaving of request threads, no more than max_requests
\* checks of one key are admitted inside one window, and once the threads are
\* idle every admitted timestamp still inside the window is in the store.
C2_Serialized ==
    \A k \in Keys :
        /\ \A lo \in 0..MaxTime : AdmittedIn(k, lo) <= RequestCount
        /\ Quiescent =>
             InWindow(rate_limit_store[k], clock) = InWindow(admitted[k], clock)

\* C3: after a rejected check the stored list of the key holds exactly the
\* timestamps that were inside the window at the check: none of them is stale
\* and the rejected attempt is not among them.
C3_RejectLeavesPruned ==
    \A t \in Threads : IsRejected(t) =>
        LET stored == rate_limit_store[KeyOf(t)] IN
        /\ \A i \in 1..Len(stored) : th[t].now - stored[i] < window
        /\ Len(stored) = InWindow(th[t].raw, th[t].now)
        /\ Len(stored) = RequestCount

\* A check is rejected for a key whose earlier, now stale, timestamps have been
\* evicted: more checks were admitted than the store holds.
C3_Witness ==
    \E t \in Threads :
        /\ IsRejected(t)
        /\ Len(admitted[KeyOf(t)]) > Len(rate_limit_store[KeyOf(t)])
        /\ \E i \in 1..Len(admitted[KeyOf(t)]) :
               th[t].now - admitted[KeyOf(t)][i] >= window

\* C4: a key that has been rejected is admitted again at any later check at
\* which fewer than max_requests stored timestamps are inside the window; the
\* admitted check leaves no expired timestamp in the store, and when every
\* stored timestamp has expired the store holds the new timestamp alone.
C4_WindowExpiryReadmits ==
    \A t \in Threads : (Checked(t) /\ KeyOf(t) \in rejected) =>
        LET stored == rate_limit_store[KeyOf(t)]
            n == InWindow(th[t].raw, th[t].now)
        IN  /\ n < RequestCount => IsAdmitted(t)
            /\ IsAdmitted(t) =>
                  \A i \in 1..Len(stored) : th[t].now - stored[i] < window
            /\ (n = 0 /\ RequestCount > 0) => stored = <<th[t].now>>

\* A key was rejected, a full window went by, and its next check is admitted
\* into a store that holds nothing but the new timestamp.
C4_Witness ==
    \E t \in Threads :
        /\ IsAdmitted(t)
        /\ KeyOf(t) \in rejected
        /\ th[t].raw /= <<>>
        /\ Len(th[t].raw) = RequestCount
        /\ rate_limit_store[KeyOf(t)] = <<th[t].now>>

\* ------------------------------------------------------------------------
\* Claims about generate_response and the /chat handler
\* ------------------------------------------------------------------------

\* generate_response has been entered by the call thread t is serving.
Entered(t) ==
    \/ th[t].pc \in {"gr_validate", "gr_retrieve", "gr_complete", "gr_save",
                     "gr_write", "except"}
    \/ th[t].pc = "done" /\ (th[t].caller = "direct" \/ th[t].status \in {200, 500})

\* The call of thread t has returned the generated text to its caller.
Succeeded(t) ==
    /\ th[t].pc = "done"
    /\ th[t].exc = "none"
    /\ th[t].caller = "direct" \/ (th[t].caller = "chat" /\ th[t].status = 200)

\* The history breaks the contract of generate_response.
Violates(m) ==
    \/ m = <<>>
    \/ m[Len(m)].role /= "user"
    \/ \E i \in 1..Len(m) : m[i].role \notin ValidRoles

\* The appends to the file made by the call of thread t.
OwnLines(t) == {i \in 1..Len(writer) : writer[i] = th[t].rid}

HasNewline(file) == \E i \in 1..Len(file) : file[i] = Newline

FirstNewline(file) ==
    CHOOSE i \in 1..Len(file) :
        file[i] = Newline /\ \A j \in 1..(i - 1) : file[j] /= Newline

\* The newline-terminated lines of the file, and what follows the last one.
RECURSIVE LinesOf(_)
LinesOf(file) ==
    IF ~HasNewline(file) THEN <<>>
    ELSE <<SubSeq(file, 1, FirstNewline(file) - 1)>>
             \o LinesOf(SubSeq(file, FirstNewline(file) + 1, Len(file)))

RECURSIVE Unterminated(_)
Unterminated(file) ==
    IF ~HasNewline(file) THEN file
    ELSE Unterminated(SubSeq(file, FirstNewline(file) + 1, Len(file)))

\* The line is one whole record: a bracketed list of a timestamp entry, role
\* messages ending in a user message, and an assistant message.
WholeRecord(l) ==
    /\ Len(l) >= 5
    /\ l[1] = [sym |-> "["]
    /\ l[Len(l)] = [sym |-> "]"]
    /\ DOMAIN l[2] = {"timestamp"}
    /\ \A i \in 3..(Len(l) - 1) : DOMAIN l[i] = {"role", "content"}
    /\ DOMAIN l[Len(l) - 2] = {"role", "content"} /\ l[Len(l) - 2].role = "user"
    /\ DOMAIN l[Len(l) - 1] = {"role", "content"} /\ l[Len(l) - 1].role = "assistant"

\* C5: when the completion backend has returned a text and the append to the
\* conversation log then fails, the call still returns the text (the /chat
\* request answers 200 with it) and the logger records the failure.
C5_PersistenceFailureTolerated ==
    \A t \in Threads :
        (th[t].pc = "done" /\ th[t].response /= "" /\ th[t].exc = "OSError") =>
            /\ th[t].caller = "chat" =>
                  th[t].status = 200 /\ th[t].body = <<"text", th[t].response>>
            /\ \E i \in 1..Len(logger.payload) :
                  /\ logger.payload[i].level = "ERROR"
                  /\ logger.payload[i].message = <<"Error in chat endpoint", "OSError">>

\* C6: a call of generate_response with a history that is empty, does not end
\* in a user message or holds an unknown role never calls the completion
\* backend, never appends a record, leaves the caller's list as it was, and
\* ends in failure.
C6_ViolationRejected ==
    \A t \in Threads : (Entered(t) /\ Violates(th[t].input)) =>
        /\ th[t].calls = 0
        /\ th[t].sent = <<>>
        /\ th[t].response = ""
        /\ OwnLines(t) = {}
        /\ th[t].messages = th[t].input
        /\ th[t].pc \notin {"gr_save", "gr_write"}
        /\ th[t].pc = "done" => th[t].exc /= "none"
        /\ (th[t].pc = "done" /\ th[t].caller = "chat") => th[t].status /= 200

\* A history with an unknown role went through retrieval and was then
\* refused by the role assertion, the completion backend not called.
C6_Witness ==
    \E t \in Threads :
        /\ th[t].pc = "done"
        /\ \E i \in 1..Len(th[t].input) : th[t].input[i].role \notin ValidRoles
        /\ th[t].exc = "AssertionError"
        /\ th[t].context_docs /= <<>>
        /\ th[t].calls = 0

\* The request of thread t failed in a backend call.
BackendFailed(t) == th[t].exc \in {"CompletionError", "EmbeddingError", "SearchError"}

\* C7: a /chat request whose history breaks the contract is answered with a
\* client error, a backend failure with a server error, and never both with
\* the same status.
C7_ErrorKindsDistinct ==
    \A t \in Threads : (th[t].pc = "done" /\ th[t].caller = "chat") =>
        /\ (Violates(th[t].input) /\ th[t].exc = "AssertionError") =>
              /\ th[t].status \in 400..499
              /\ \A u \in Threads :
                    (th[u].pc = "done" /\ th[u].caller = "chat" /\ BackendFailed(u))
                        => th[u].status /= th[t].status
        /\ BackendFailed(t) => th[t].status \in 500..599

\* C9: under every interleaving the file is a sequence of whole lines, one per
\* call that returned; each line is a whole record carrying the reply of the
\* call that appended it, and the line of a call that has just returned is
\* the record of its own input and its own reply.
C9_AtomicRecords ==
    LET lines == LinesOf(saved_messages) IN
    /\ Unterminated(saved_messages) = <<>>
    /\ Len(lines) = Len(writer)
    /\ \A i, j \in 1..Len(writer) : i < j => writer[i] /= writer[j]
    /\ \A i \in 1..Len(lines) :
          /\ WholeRecord(lines[i])
          /\ lines[i][Len(lines[i]) - 1].content = strip(Completion(writer[i]))
    /\ \A t \in Threads :
          /\ OwnLines(t) /= {} => Succeeded(t)
          /\ Succeeded(t) =>
                /\ Cardinality(OwnLines(t)) = 1
                /\ \A i \in OwnLines(t) : \E ts \in 0..MaxTime :
                      lines[i] = dumps(<<[timestamp |-> ts]>> \o th[t].input
                                        \o <<Msg("assistant", th[t].response)>>)

\* Two calls overlapped and both returned: the call that started second
\* appended first.
C9_Witness ==
    /\ Len(writer) >= 2
    /\ \E i, j \in 1..Len(writer) : i < j /\ writer[i] > writer[j]
    /\ \E t, u \in Threads : t /= u /\ Succeeded(t) /\ Succeeded(u)

\* C10: a call that returned has appended exactly one record, the timestamp
\* entry, then the input messages in their order, then the assistant message;
\* and the context put into the system prompt is the literal fallback
\* exactly when retrieval returned no chunk.
C10_OneRecordPerSuccess ==
    \A t \in Threads : Succeeded(t) =>
        /\ Cardinality(OwnLines(t)) = 1
        /\ Len(th[t].messages) = Len(th[t].input) + 2
        /\ DOMAIN th[t].messages[1] = {"timestamp"}
        /\ SubSeq(th[t].messages, 2, Len(th[t].input) + 1) = th[t].input
        /\ th[t].messages[Len(th[t].messages)] = Msg("assistant", th[t].response)
        /\ \A i \in OwnLines(t) :
              LinesOf(saved_messages)[i] = dumps(th[t].messages)
        /\ (th[t].context_docs = <<>>) <=> (th[t].context = <<Fallback>>)
        /\ th[t].system_prompt.context = th[t].context
        /\ th[t].sent[1] = Msg("system", th[t].system_prompt)

\* A call whose retrieval returned no chunk has returned, with the fallback
\* in its prompt and its record in the file.
C10_Witness ==
    \E t \in Threads :
        /\ Succeeded(t)
        /\ th[t].context_docs = <<>>
        /\ th[t].system_prompt.context = <<Fallback>>
        /\ OwnLines(t) /= {}

\* ------------------------------------------------------------------------
\* Claims about retrieval
\* ------------------------------------------------------------------------

\* The offset (1-based) of chunk d in the corpus.
PosOf(d) == CHOOSE i \in 1..Len(documents) : documents[i] = d

\* C8: a query for k >= 1 returns exactly min(k, n) chunks, no chunk twice,
\* nearest first, and all n chunks when k >= n.
C8_QueryClamps ==
    retrieved.called =>
        LET docs == retrieved.docs
            n == Len(documents)
        IN  /\ Len(docs) = Min(top_k, n)
            /\ \A i, j \in 1..Len(docs) : i < j => docs[i] /= docs[j]
            /\ \A i, j \in 1..Len(docs) : i < j =>
                  Dist(PosOf(docs[i]) - 1, retrieved.query_vec)
                      <= Dist(PosOf(docs[j]) - 1, retrieved.query_vec)
            /\ top_k >= n => {docs[i] : i \in 1..Len(docs)}
                                = {documents[i] : i \in 1..n}

\* The same statement for the queries that ask for no more than is indexed.
C8_WithinIndex == top_k <= Len(documents) => C8_QueryClamps

\* ------------------------------------------------------------------------
\* Claims about the system prompt and the failures of the backends
\* ------------------------------------------------------------------------

\* The part of C11 about the first message and the acceptance only: the
\* injected prompt is sent first, and only a history that breaks the
\* contract is refused by an assertion.
C11_InjectedFirst ==
    \A t \in Threads :
        /\ th[t].calls > 0 => th[t].sent[1] = Msg("system", th[t].system_prompt)
        /\ th[t].exc = "AssertionError" => Violates(th[t].input)

\* C11: in every completion call the injected system prompt is the first
\* message, a history holding a system message is accepted, and no
\* system-role message of the caller follows the injected prompt in what the
\* completion backend receives.
C11_SystemPromptOverrides ==
    /\ C11_InjectedFirst
    /\ \A t \in Threads : th[t].calls > 0 =>
          \A i \in 2..Len(th[t].sent) : th[t].sent[i].role /= "system"

\* C12: when the completion call fails, the call of generate_response fails
\* to its caller (the /chat request answers 500), the completion backend was
\* called exactly once for the request, no reply is held and no record is
\* appended to the file.
C12_BackendFailureIsHard ==
    \A t \in Threads : th[t].exc = "CompletionError" =>
        /\ th[t].calls = 1
        /\ th[t].response = ""
        /\ OwnLines(t) = {}
        /\ th[t].pc \in {"except", "done"}
        /\ (th[t].pc = "done" /\ th[t].caller = "chat") =>
              th[t].status = 500 /\ th[t].body = <<"error", "Internal server error">>

\* A /chat request whose completion call failed has been answered, while
\* the other call appended its record.
C12_Witness ==
    \E t, u \in Threads :
        /\ t /= u
        /\ th[t].pc = "done" /\ th[t].caller = "chat"
        /\ th[t].exc = "CompletionError" /\ th[t].status = 500
        /\ Succeeded(u)
        /\ Len(writer) = 1

\* C13: when the retrieval step fails (the embedding call or the search
\* raises), the completion backend is still called and the call returns a
\* response.
C13_RetrievalBestEffort ==
    \A t \in Threads :
        (th[t].pc = "done" /\ th[t].exc \in {"EmbeddingError", "SearchError"}) =>
            /\ th[t].calls = 1
            /\ th[t].response /= ""
            /\ th[t].caller = "chat" => th[t].status = 200

\* ------------------------------------------------------------------------
\* Claims about the logger
\* ------------------------------------------------------------------------

\* The call of thread t was one of the logging operations and has returned.
LogReturned(t) == th[t].pc = "done" /\ th[t].op \in LogOps

\* The part of C14 about the event itself: a logging call that has returned
\* left the accumulator as it found it plus its one event, the count one
\* higher, and nothing in the log file when the write to it failed.
C14_OneEventPerLog ==
    \A t \in Threads : LogReturned(t) =>
        /\ logger.payload = Append(th[t].payload_read, th[t].formatted_msg)
        /\ logger.log_count = th[t].count_read + 1
        /\ th[t].sink_failed =>
              \A i \in 1..Len(logger.sink) : logger.sink[i] /= th[t].formatted_msg

\* C14: a logging call that has returned left its event in the accumulator
\* right after what was there, every event added since is counted once in
\* total_logs, only its own event was added when the write to the log file
\* succeeded, and when that write failed an ERROR event recording the
\* failure was added to the accumulator and nothing reached the log file.
C14_SinkFailureAccounted ==
    \A t \in Threads : LogReturned(t) =>
        LET before == Len(th[t].payload_read)
            after == Len(logger.payload)
        IN  /\ after > before
            /\ SubSeq(logger.payload, 1, before) = th[t].payload_read
            /\ logger.payload[before + 1] = th[t].formatted_msg
            /\ logger.log_count - th[t].count_read = after - before
            /\ ~th[t].sink_failed => after = before + 1
            /\ th[t].sink_failed =>
                  /\ \E i \in (before + 2)..after : logger.payload[i].level = "ERROR"
                  /\ \A i \in 1..Len(logger.sink) :
                        logger.sink[i] /= th[t].formatted_msg

\* C15: no step of a public operation of the logger lowers total_logs or
\* removes an event from the accumulated text.
C15_CounterMonotonic ==
    [][/\ logger'.log_count >= logger.log_count
       /\ Len(logger'.payload) >= Len(logger.payload)
       /\ SubSeq(logger'.payload, 1, Len(logger.payload)) = logger.payload]_vars

\* The same statement for the steps of every operation but clear.
C15_MonotonicWithoutClear ==
    [][(\A t \in Threads : th'[t].op /= "clear") =>
          /\ logger'.log_count >= logger.log_count
          /\ SubSeq(logger'.payload, 1, Len(logger.payload)) = logger.payload]_vars

\* The events of call rid in the accumulator.
EventsOf(rid) ==
    {i \in 1..Len(logger.payload) :
        logger.payload[i].message \in {MessageOf(op, rid) : op \in LogOps}}

\* C16: when no logging call is in progress, total_logs is its initial value
\* plus the number of logging calls made, the accumulator holds the event of
\* each of them exactly once, and total_logs is the number of events held.
C16_ConcurrentLogsKept ==
    (\A t \in Threads : th[t].pc \in {"idle", "done"}) =>
        /\ logger.log_count = 1 + nreq
        /\ \A rid \in 1..nreq : Cardinality(EventsOf(rid)) = 1
        /\ logger.log_count = Len(logger.payload)

\* ------------------------------------------------------------------------
\* Claims about the /history and /status endpoints
\* ------------------------------------------------------------------------

\* Thread t has answered a GET /history.
HistoryAnswered(t) == th[t].pc = "done" /\ th[t].op = "history"

\* The request of thread t carried no key; it carried one, and no key it
\* carried is the configured one.
SuppliedNoKey(t) == ~Truthy(th[t].authorization) /\ ~Truthy(th[t].key)

SuppliedWrongKey(t) ==
    /\ Truthy(th[t].authorization) \/ Truthy(th[t].key)
    /\ th[t].authorization /= environ.HISTORY_KEY
    /\ th[t].key /= environ.HISTORY_KEY

\* C17: a request without a key and a request with a wrong key get the same
\* response, which is 401 Unauthorized when the deployment is configured;
\* the content of the history is answered only to a request whose header or
\* parameter equals the configured key, and a request whose header equals
\* it is not refused.
C17_HistoryExactMatch ==
    /\ \A t, u \in Threads :
          (HistoryAnswered(t) /\ HistoryAnswered(u)
                /\ SuppliedNoKey(t) /\ SuppliedWrongKey(u)) =>
              /\ th[t].status = th[u].status
              /\ th[t].body = th[u].body
    /\ \A t \in Threads : HistoryAnswered(t) =>
          /\ (environ.dotenv /\ Truthy(environ.HISTORY_KEY)
                  /\ (SuppliedNoKey(t) \/ SuppliedWrongKey(t))) =>
                (th[t].status = 401 /\ th[t].body = <<"error", "Unauthorized">>)
          /\ (th[t].status = 200 \/ th[t].body[1] = "history") =>
                /\ Truthy(environ.HISTORY_KEY)
                /\ environ.HISTORY_KEY \in {th[t].authorization, th[t].key}
          /\ (environ.dotenv /\ Truthy(environ.HISTORY_KEY)
                  /\ th[t].authorization = environ.HISTORY_KEY) =>
                th[t].status /= 401

\* A request without a key and one with a wrong key have both been refused,
\* in a deployment that has a key and a history file.
C17_Witness ==
    /\ environ.dotenv /\ environ.HISTORY_KEY = Secret
    /\ saved_messages /= <<>>
    /\ \E t, u \in Threads :
          /\ HistoryAnswered(t) /\ SuppliedNoKey(t) /\ th[t].status = 401
          /\ HistoryAnswered(u) /\ SuppliedWrongKey(u) /\ th[u].status = 401

\* C18: no response of /status carries, in the text of the logger it
\* returns, a key that was sent to /history; the responses of /status are
\* then the same whatever keys were sent.
C18_KeysNotInStatus ==
    \A t \in Threads :
        (th[t].pc = "done" /\ th[t].op = "status" /\ th[t].status = 200) =>
            \A i \in 1..Len(th[t].ret.logs_dump) :
                \A j \in 1..Len(th[t].ret.logs_dump[i].message) :
                    ~Truthy(th[t].ret.logs_dump[i].message[j])
                        \/ th[t].ret.logs_dump[i].message[j] \notin KeyValues

\* ------------------------------------------------------------------------
\* Claims about the keys of the rate limiter and the /chat pipeline
\* ------------------------------------------------------------------------

\* The key of the request thread t is serving, from the request itself.
RequestKey(t) == <<th[t].user, th[t].endpoint>>

\* A step changes the stored list of a key only when it is the store of an
\* admission check of that very key, and then to that check's own list.
StoreFrame ==
    \A k \in Keys : rate_limit_store'[k] /= rate_limit_store[k] =>
        \E t \in Threads :
            /\ th[t].pc = "rl_store"
            /\ RequestKey(t) = k
            /\ rate_limit_store'[k] = Append(th[t].timestamps, th[t].now)

\* The check of thread t read the list of its own key, and when it was
\* rejected, max_requests checks of its own key had been admitted in the
\* window.
OwnKeyDecides(t) ==
    /\ th[t].pc \in {"rl_log", "rl_store"} =>
          \A i \in 1..Len(th[t].raw) :
              \E j \in 1..Len(admitted[RequestKey(t)]) :
                  admitted[RequestKey(t)][j] = th[t].raw[i]
    /\ IsRejected(t) =>
          /\ InWindow(admitted[RequestKey(t)], th[t].now) >= RequestCount
          /\ InWindow(th[t].raw, th[t].now) >= RequestCount
          /\ \A i \in 1..Len(th[t].raw) :
                \E j \in 1..Len(admitted[RequestKey(t)]) :
                    admitted[RequestKey(t)][j] = th[t].raw[i]

\* C19: an admission check changes the stored list of its own key only, the
\* stored list of a key holds only timestamps of admitted checks of that
\* key, and a check is rejected only on max_requests admitted checks of its
\* own key.
C19_KeysIndependent ==
    /\ [][StoreFrame]_vars
    /\ [](\A t \in Threads : OwnKeyDecides(t))
    /\ [](\A k \in Keys : \A i \in 1..Len(rate_limit_store[k]) :
             \E j \in 1..Len(admitted[k]) : admitted[k][j] = rate_limit_store[k][i])

\* A check of one client is admitted while the other client is at its
\* limit and has been rejected.
C19_Witness ==
    \E t \in Threads :
        /\ th[t].pc = "chat"
        /\ th[t].user = "u2"
        /\ <<"u1", "chat">> \in rejected
        /\ InWindow(rate_limit_store[<<"u1", "chat">>], th[t].now) = RequestCount
        /\ rate_limit_store[<<"u2", "chat">>] = <<th[t].now>>

\* The positions of a request inside the /chat handler.
HandlerPcs == {"chat", "gr_validate", "gr_retrieve", "gr_complete", "gr_save",
               "gr_write", "except"}

\* The request of thread t was admitted: the handler is running or has
\* answered.
Charged(t) ==
    \/ th[t].pc \in HandlerPcs
    \/ th[t].pc = "done" /\ th[t].caller = "chat"

\* C20: while the handler of an admitted request runs and after it has
\* answered, whatever the answer, the stored list of the request's key is
\* the in-window timestamps it found followed by the request's own
\* timestamp; a rate-limited request has not entered the handler, called no
\* backend and left the store as it was; the handler is entered only from
\* the step that stored the timestamp, and the history file grows only by
\* the write of an admitted request.
C20_ChargedBeforeHandler ==
    /\ [](\A t \in Threads :
            /\ Charged(t) =>
                  /\ rate_limit_store[RequestKey(t)] =
                        Append(SelectSeq(th[t].raw,
                                         LAMBDA ts : th[t].now - ts < window),
                               th[t].now)
                  /\ th[t].pc = "done" => th[t].status \in {200, 400, 500, 503}
            /\ IsRejected(t) =>
                  /\ th[t].caller = "none"
                  /\ th[t].calls = 0 /\ th[t].sent = <<>>
                  /\ th[t].input = <<>> /\ th[t].response = ""
                  /\ rate_limit_store[RequestKey(t)] = th[t].raw)
    /\ [][/\ \A t \in Threads :
                (th'[t].pc \in HandlerPcs /\ th[t].pc \notin HandlerPcs) =>
                    /\ th[t].pc = "rl_store"
                    /\ rate_limit_store'[RequestKey(t)] /= rate_limit_store[RequestKey(t)]
          /\ saved_messages' /= saved_messages =>
                \E t \in Threads : th[t].pc = "gr_write" /\ Charged(t)]_vars

\* After a client was rate-limited, an admitted request of the other client
\* failed in the completion backend and its timestamp is in the store; a
\* record of an earlier request is in the file.
C20_Witness ==
    \E t \in Threads :
        /\ th[t].pc = "done" /\ th[t].status = 500
        /\ th[t].exc = "CompletionError"
        /\ rate_limit_store[RequestKey(t)] = <<th[t].now>>
        /\ rejected /= {}
        /\ saved_messages /= <<>>

\* The admitted requests that ended in each of the other answers.
C20_Answered200 ==
    \E t \in Threads : th[t].pc = "done" /\ Charged(t) /\ th[t].status = 200

C20_Answered400 ==
    \E t \in Threads : th[t].pc = "done" /\ Charged(t) /\ th[t].status = 400

C20_Answered503 ==
    \E t \in Threads : th[t].pc = "done" /\ Charged(t) /\ th[t].status = 503

====
